---- MODULE Spec2Model ----
(***************************************************************************)
(* Joy Girl API (src/app.py): the Telegram relay and its short-term        *)
(* mailbox.  The module state is recent_messages, waiting_for_reply and    *)
(* notification_sent_time; every request handler is a coroutine on one     *)
(* event loop, so a handler runs without interruption from one `await` to  *)
(* the next, and each action below is one such run.                        *)
(*                                                                         *)
(*                                                                         *)
(* Python strings are sequences of one-character strings, so that          *)
(* startswith, strip and split are computed on the characters.  JSON       *)
(* values are tagged records [t |-> tag, v |-> value].                     *)
(*                                                                         *)
(* Every `await` of an outbound call is taken as a point where the event   *)
(* loop may run another handler.  A call that returns before its request   *)
(* (send_telegram_message without a token, get_ai_response without a key)  *)
(* does not in fact yield, so the model allows a few interleavings more    *)
(* than the program.  message_id and chat id are integers and first_name   *)
(* a string, as the platform sends them; chat_id stands for str(id).       *)
(***************************************************************************)
EXTENDS Integers, Sequences, FiniteSets, TLC

-----------------------------------------------------------------------------
(* Bounds of the model *)

NumProcs == 2
MaxDeliveries == 1
MaxBurst == 22
MaxLimit == 3
MaxTextLen == 5
MaxChunkSize == 3
MaxRace == 3

(* Program constants *)

MAX_MESSAGES == 20

-----------------------------------------------------------------------------
(* Fixed strings of the program *)

ERR_NO_KEY == <<"E", "r", "r", "o", "r", ":", " ", "D", "E", "E", "P", "S", "E", "E", "K", "_", "A", "P", "I", "_", "K", "E", "Y", " ", "n", "o", "t", " ", "s", "e", "t">>

ERR_GLITCH == <<"S", "o", "r", "r", "y", ",", " ", "m", "y", " ", "b", "r", "a", "i", "n", " ", "g", "l", "i", "t", "c", "h", "e", "d", "!">>

ERR_CONNECTION == <<"O", "o", "p", "s", "!", " ", "C", "o", "n", "n", "e", "c", "t", "i", "o", "n", " ", "e", "r", "r", "o", "r", "!">>

PLACEHOLDER_TRANSCRIPT == <<"H", "e", "l", "l", "o", " ", "J", "o", "y", " ", "G", "i", "r", "l">>

VOICE_FALLBACK == <<"I", " ", "c", "o", "u", "l", "d", "n", "'", "t", " ", "h", "e", "a", "r", " ", "c", "l", "e", "a", "r", "l", "y">>

START_COMMAND == <<"/", "s", "t", "a", "r", "t">>

COMMAND_PREFIX == <<"/">>

DEFAULT_FROM_USER == <<"U", "s", "e", "r">>

DEFAULT_MESSAGE_ID == 0

-----------------------------------------------------------------------------
(* Python string operations *)

\* str.startswith(prefix)
StartsWith(s, prefix) ==
    /\ Len(s) >= Len(prefix)
    /\ SubSeq(s, 1, Len(prefix)) = prefix

\* The characters str.strip() and str.split() treat as whitespace.
Whitespace == {" ", "\t", "\n", "\r", "\f"}

RECURSIVE LStrip(_)
LStrip(s) ==
    IF s # <<>> /\ Head(s) \in Whitespace THEN LStrip(Tail(s)) ELSE s

RECURSIVE RStrip(_)
RStrip(s) ==
    IF s # <<>> /\ s[Len(s)] \in Whitespace
    THEN RStrip(SubSeq(s, 1, Len(s) - 1))
    ELSE s

\* str.strip()
Strip(s) == RStrip(LStrip(s))

\* `needle in haystack` on two strings
IsSubstring(needle, haystack) ==
    \E i \in 0..(Len(haystack) - Len(needle)) :
        SubSeq(haystack, i + 1, i + Len(needle)) = needle

-----------------------------------------------------------------------------
(* JSON values and the Python operations the handlers apply to them.  An   *)
(* operation that can raise returns [exc |-> TRUE] or [exc |-> FALSE,      *)
(* val |-> its value].                                                     *)

Obj(f) == [t |-> "obj", v |-> f]
Arr(s) == [t |-> "arr", v |-> s]
Str(s) == [t |-> "str", v |-> s]
Num(n) == [t |-> "num", v |-> n]
Null == [t |-> "null", v |-> 0]
EmptyDict == Obj(<<>>)

Raised == [exc |-> TRUE]
Value(x) == [exc |-> FALSE, val |-> x]

\* The characters of a dictionary key (keys are TLA+ strings in Obj).
KeyChars(key) ==
    CASE key = "message" -> <<"m", "e", "s", "s", "a", "g", "e">>
      [] key = "text" -> <<"t", "e", "x", "t">>
      [] key = "voice" -> <<"v", "o", "i", "c", "e">>
      [] OTHER -> <<>>

\* `key in j`: membership of a dict, a list or a string; TypeError otherwise.
PyIn(key, j) ==
    CASE j.t = "obj" -> Value(key \in DOMAIN j.v)
      [] j.t = "arr" ->
            Value(\E i \in 1..Len(j.v) :
                    j.v[i].t = "str" /\ j.v[i].v = KeyChars(key))
      [] j.t = "str" -> Value(IsSubstring(KeyChars(key), j.v))
      [] OTHER -> Raised

\* `j[key]` with a string key: KeyError on a missing key, TypeError on a
\* value that is no dict.
PyGetItem(j, key) ==
    IF j.t = "obj" /\ key \in DOMAIN j.v THEN Value(j.v[key]) ELSE Raised

\* `j.get(key, default)`: AttributeError on a value that is no dict.
PyGet(j, key, default) ==
    IF j.t # "obj" THEN Raised
    ELSE IF key \in DOMAIN j.v THEN Value(j.v[key]) ELSE Value(default)

-----------------------------------------------------------------------------
(* Inbound webhook bodies.  Each is [valid |-> whether request.json() can  *)
(* decode the body, json |-> the decoded value].                           *)

Body(j) == [valid |-> TRUE, json |-> j]

Chat(n) == Obj([id |-> Num(n)])
From(name) == Obj([first_name |-> Str(name)])

ALICE == <<"A", "l", "i", "c", "e">>
HI == <<"h", "i">>
AUDIO_FILE == <<"f", "1">>

\* The well-formed text message of a conversation: chat, message_id, sender
\* and text all present.
TextUpdate(id, text) ==
    Body(Obj([message |-> Obj([chat |-> Chat(1), message_id |-> Num(id),
                               from |-> From(ALICE), text |-> Str(text)])]))

MalformedUpdates ==
    << [valid |-> FALSE, json |-> Null],
       Body(Num(5)),
       Body(Null),
       Body(Arr(<<>>)),
       Body(Arr(<<Str(KeyChars("message"))>>)),
       Body(Str(HI)),
       Body(Str(KeyChars("message"))),
       Body(Obj([update_id |-> Num(1)])),
       Body(Obj([message |-> Str(HI)])),
       Body(Obj([message |-> Obj([message_id |-> Num(7), text |-> Str(HI)])])),
       Body(Obj([message |-> Obj([chat |-> EmptyDict, text |-> Str(HI)])])),
       Body(Obj([message |-> Obj([chat |-> Chat(1), from |-> Str(ALICE),
                                  text |-> Str(HI)])])),
       Body(Obj([message |-> Obj([chat |-> Chat(1), message_id |-> Num(7),
                                  text |-> Num(5)])])),
       Body(Obj([message |-> Obj([chat |-> Chat(1), message_id |-> Num(7),
                                  photo |-> Arr(<<>>)])])),
       Body(Obj([message |-> Obj([chat |-> Chat(1), message_id |-> Num(7),
                                  voice |-> EmptyDict])])),
       Body(Obj([message |-> Obj([chat |-> Chat(1), message_id |-> Num(7),
                                  voice |-> Str(AUDIO_FILE)])])) >>

CommandUpdates ==
    << TextUpdate(3, START_COMMAND),
       TextUpdate(4, <<"/", "h", "e", "l", "p">>),
       TextUpdate(5, COMMAND_PREFIX),
       TextUpdate(6, START_COMMAND \o <<"x">>) >>

RelayUpdates ==
    << TextUpdate(7, HI),
       Body(Obj([message |-> Obj([chat |-> Chat(1), from |-> EmptyDict,
                                  text |-> Str(<<" ">> \o START_COMMAND)])])),
       Body(Obj([message |-> Obj([chat |-> Chat(1), message_id |-> Num(2),
                                  from |-> From(ALICE),
                                  voice |-> Obj([file_id |-> Str(AUDIO_FILE)])])])) >>

\* Every body the webhook is delivered in the full service.
Updates == MalformedUpdates \o CommandUpdates \o RelayUpdates

-----------------------------------------------------------------------------
(* telegram_webhook, from the decoded body to its first outbound call      *)
(* (lines 237-279): the fields it extracts and the branch it takes.        *)
(* branch is "exception" (an exception reaches the except clause),         *)
(* "ignored", "unsupported", "command", "text" or "voice".                 *)

Extract(branch, chat_id, from_user, message_id, user_text, message_type) ==
    [branch |-> branch, chat_id |-> chat_id, from_user |-> from_user,
     message_id |-> message_id, user_text |-> user_text,
     message_type |-> message_type]

Stop(branch) == Extract(branch, 0, <<>>, 0, <<>>, "text")

\* ClassifyPayload taking only "/start" for a command.
ClassifyPayload_onlyStart(message, chat_id, from_user, message_id) ==
    IF "text" \in DOMAIN message.v
    THEN LET text == message.v["text"] IN
         IF text.t # "str" THEN Stop("exception")
         ELSE IF text.v = START_COMMAND
         THEN Extract("command", chat_id, from_user, message_id, text.v, "text")
         ELSE Extract("text", chat_id, from_user, message_id, text.v, "text")
    ELSE IF "voice" \in DOMAIN message.v
    THEN LET file_id == PyGetItem(message.v["voice"], "file_id") IN
         IF file_id.exc THEN Stop("exception")
         ELSE Extract("voice", chat_id, from_user, message_id, <<>>, "voice")
    ELSE Stop("unsupported")

\* Lines 252-279: the text / voice / unsupported branches, once chat_id,
\* from_user and message_id are extracted.
ClassifyPayload(message, chat_id, from_user, message_id) ==
    IF "text" \in DOMAIN message.v
    THEN LET text == message.v["text"] IN
         IF text.t # "str" THEN Stop("exception")
         ELSE IF StartsWith(text.v, COMMAND_PREFIX)
         THEN Extract("command", chat_id, from_user, message_id, text.v, "text")
         ELSE Extract("text", chat_id, from_user, message_id, text.v, "text")
    ELSE IF "voice" \in DOMAIN message.v
    THEN LET file_id == PyGetItem(message.v["voice"], "file_id") IN
         IF file_id.exc THEN Stop("exception")
         ELSE Extract("voice", chat_id, from_user, message_id, <<>>, "voice")
    ELSE Stop("unsupported")

\* Lines 243-246: chat_id, from_user and message_id of the message.
ClassifyMessage(message) ==
    LET chat == PyGetItem(message, "chat") IN
    IF chat.exc THEN Stop("exception")
    ELSE LET id == PyGetItem(chat.val, "id") IN
    IF id.exc THEN Stop("exception")
    ELSE LET sender == PyGet(message, "from", EmptyDict) IN
    IF sender.exc THEN Stop("exception")
    ELSE LET first_name == PyGet(sender.val, "first_name", Str(DEFAULT_FROM_USER)) IN
    IF first_name.exc THEN Stop("exception")
    ELSE LET message_id == PyGet(message, "message_id", Num(DEFAULT_MESSAGE_ID)) IN
    IF message_id.exc THEN Stop("exception")
    ELSE ClassifyPayload(message, id.val.v, first_name.val.v, message_id.val.v)

\* Lines 237-243: decode the body, look for the message.
Classify(body) ==
    IF ~body.valid THEN Stop("exception")
    ELSE LET has == PyIn("message", body.json) IN
    IF has.exc THEN Stop("exception")
    ELSE IF ~has.val THEN Stop("ignored")
    ELSE LET message == PyGetItem(body.json, "message") IN
    IF message.exc THEN Stop("exception")
    ELSE ClassifyMessage(message.val)

-----------------------------------------------------------------------------
(* Outbound collaborators.  Each call's outcome is the environment's; the  *)
(* operators compute what the calling function returns for an outcome.     *)

\* What api.telegram.org answers to sendMessage.
SendOutcomes == {"200", "400", "exception"}

\* Lines 120-129: the request of send_telegram_message, which raises on a
\* transport failure, and its comparison of the status with 200.
SendRequest(outcome) ==
    IF outcome = "exception" THEN Raised ELSE Value(outcome = "200")

\* send_telegram_message without its try/except.
send_telegram_message_unguarded(token, outcome) ==
    IF ~token THEN Value(FALSE) ELSE SendRequest(outcome)

\* send_telegram_message (lines 112-132): False without a bot token, with no
\* request made; else whether the request was answered 200, an exception of
\* the request caught and turned into False.
send_telegram_message(token, outcome) ==
    IF ~token THEN Value(FALSE)
    ELSE LET r == SendRequest(outcome) IN
         IF r.exc THEN Value(FALSE) ELSE r

\* The answers the relay service and the bursts are run against.
ServiceSendOutcomes == {"200"}

\* download_telegram_file: the file's bytes, or an exception.
DownloadOutcomes == {"bytes", "exception"}

\* What api.openai.com answers to the transcription request.
Transcript(kind, text) == [kind |-> kind, text |-> text]

TranscribeOutcomes ==
    { Transcript("text", HI),
      Transcript("no_text", <<>>),
      Transcript("status", <<>>),
      Transcript("exception", <<>>) }

\* The outcomes the relay service is run against.
ServiceTranscribeOutcomes == { Transcript("text", HI), Transcript("status", <<>>) }

\* Lines 156 and 174: a key is set and the transcription request was
\* answered 200 with a JSON object.
Transcribed(openai_key, outcome) ==
    openai_key /\ outcome.kind \in {"text", "no_text"}

\* transcribe_audio: the "text" of a 200 answer ("" when the answer has
\* none), the placeholder without a key, on another status and on any
\* exception.
transcribe_audio(openai_key, outcome) ==
    IF Transcribed(openai_key, outcome)
    THEN outcome.text
    ELSE PLACEHOLDER_TRANSCRIPT

\* What api.deepseek.com answers to the completion request: a 200 whose body
\* holds the completion, a 200 whose body does not parse, another status, or
\* an exception of the transport (timeout, connection error).
Completion(kind, content) == [kind |-> kind, content |-> content]

REPLY == <<" ", "Y", "a", "y", "!", "\n">>

AiOutcomes ==
    { Completion("completion", REPLY),
      Completion("completion", <<"Y", "a", "y", "!">>),
      Completion("completion", <<" ", "\n">>),
      Completion("completion", <<>>),
      Completion("unparsable", <<>>),
      Completion("status", <<>>),
      Completion("exception", <<>>) }

\* The outcomes the relay service is run against.
ServiceAiOutcomes ==
    { Completion("completion", REPLY), Completion("status", <<>>) }

\* AiRequest raising on a status that is not 200, as raise_for_status would.
AiRequest_raiseForStatus(outcome) ==
    IF outcome.kind = "completion" THEN Value(Strip(outcome.content)) ELSE Raised

\* Lines 62-85, the body of get_ai_response's try: the stripped completion
\* of a 200 answer, the apology on another status; the transport's exception
\* and the KeyError or JSON error of a body without the completion are
\* raised.
AiRequest(outcome) ==
    CASE outcome.kind = "completion" -> Value(Strip(outcome.content))
      [] outcome.kind = "status" -> Value(ERR_GLITCH)
      [] OTHER -> Raised

\* Lines 58 and 80-82: a key is set and the completion request was answered
\* 200 with a completion in its body.
Completed(api_key, outcome) == api_key /\ outcome.kind = "completion"

\* get_ai_response without its except clause.
get_ai_response_unguarded(api_key, outcome) ==
    IF ~api_key THEN Value(ERR_NO_KEY) ELSE AiRequest(outcome)

\* get_ai_response (lines 55-89): no request without a key; the except
\* clause turns whatever the try raises into the connection error text.
get_ai_response(api_key, outcome) ==
    IF ~api_key THEN Value(ERR_NO_KEY)
    ELSE LET r == AiRequest(outcome) IN
         IF r.exc THEN Value(ERR_CONNECTION) ELSE r

\* The calls a call of get_ai_response logs: itself, and the one request to
\* the provider when the key is set (lines 58-63).
AiCalls(api_key) ==
    IF api_key THEN <<"get_ai_response", "deepseek_request">>
    ELSE <<"get_ai_response">>

-----------------------------------------------------------------------------
(* The mailbox *)

\* What datetime.now().isoformat() returns: the handlers store and return it
\* and never read it back, so every reading is the one opaque value.
NOW == "now"

\* Record taking the chat's id for the message's.
Record_chatId(l, now) ==
    [id |-> l.chat_id, text |-> l.user_text, from_user |-> l.from_user,
     timestamp |-> now, response |-> l.joy_girl_response,
     type |-> l.message_type]

\* msg_for_esp32 (lines 288-295)
Record(l, now) ==
    [id |-> l.message_id, text |-> l.user_text, from_user |-> l.from_user,
     timestamp |-> now, response |-> l.joy_girl_response,
     type |-> l.message_type]

\* Evict popping the newest record, pop() for pop(0).
Evict_newest(msgs) ==
    IF Len(msgs) > MAX_MESSAGES THEN SubSeq(msgs, 1, Len(msgs) - 1) ELSE msgs

\* Lines 299-300: drop the oldest record of a list longer than MAX_MESSAGES.
Evict(msgs) == IF Len(msgs) > MAX_MESSAGES THEN Tail(msgs) ELSE msgs

\* Store keeping one record per sender: a new record takes the place of the
\* newest one.
Store_overwrite(msgs, rec) ==
    IF msgs = <<>> THEN <<rec>> ELSE [msgs EXCEPT ![Len(msgs)] = rec]

\* Lines 297-300
Store(msgs, rec) == Evict(Append(msgs, rec))

\* Python's seq[start:]
PySliceFrom(seq, start) ==
    LET n == Len(seq)
        from == IF start < 0
                THEN (IF n + start < 0 THEN 0 ELSE n + start)
                ELSE (IF start > n THEN n ELSE start)
    IN SubSeq(seq, from + 1, n)

\* Filtered keeping the record with the id asked from, >= for >.
RECURSIVE Filtered_inclusive(_, _)
Filtered_inclusive(msgs, since_id) ==
    IF msgs = <<>> THEN <<>>
    ELSE IF Head(msgs).id >= since_id
         THEN <<Head(msgs)>> \o Filtered_inclusive(Tail(msgs), since_id)
         ELSE Filtered_inclusive(Tail(msgs), since_id)

\* [m for m in msgs if m["id"] > since_id]
RECURSIVE Filtered(_, _)
Filtered(msgs, since_id) ==
    IF msgs = <<>> THEN <<>>
    ELSE IF Head(msgs).id > since_id
         THEN <<Head(msgs)>> \o Filtered(Tail(msgs), since_id)
         ELSE Filtered(Tail(msgs), since_id)

\* Lines 317-318 of get_messages
Query(msgs, limit, since_id) ==
    LET filtered == Filtered(msgs, since_id) IN
    IF filtered # <<>> THEN PySliceFrom(filtered, 0 - limit) ELSE <<>>

-----------------------------------------------------------------------------
(* State *)

VARIABLES
    cfg,                      \* the environment: which credentials are set
    recent_messages,          \* the mailbox (line 42)
    waiting_for_reply,        \* line 45
    notification_sent_time,   \* line 44: <<>> for None, <<t>> once set
    pc,                       \* per handler slot: the outbound call awaited
    local,                    \* per handler slot: the handler's locals
    delivered,                \* webhook deliveries received so far
    appended,                 \* history: records appended since the last clear
    out,                      \* the response the last step returned, if any
    device                    \* what the polling device remembers

vars == <<cfg, recent_messages, waiting_for_reply, notification_sent_time,
          pc, local, delivered, appended, out, device>>

Procs == 1..NumProcs

\* os.getenv of the four credentials: TRUE when set to a non-empty value.
Env(deepseek, token, chat, openai) ==
    [DEEPSEEK_API_KEY |-> deepseek, TELEGRAM_BOT_TOKEN |-> token,
     TELEGRAM_CHAT_ID |-> chat, OPENAI_API_KEY |-> openai]

AllSet == Env(TRUE, TRUE, TRUE, TRUE)

\* The environments the service is run in: every credential set, none set,
\* and the bot token without a recipient.
Configs == {AllSet, Env(FALSE, FALSE, FALSE, FALSE), Env(FALSE, TRUE, FALSE, FALSE)}

NoRequest == [valid |-> FALSE, json |-> Null]

\* A slot that runs no handler.
IdleLocal ==
    [request |-> NoRequest, chat_id |-> 0, from_user |-> <<>>,
     message_id |-> 0, user_text |-> <<>>, message_type |-> "text",
     joy_girl_response |-> <<>>, max_tokens |-> 0, calls |-> <<>>,
     results |-> <<>>]

\* The locals of telegram_webhook after lines 243-279.
WebhookLocal(body, x, calls) ==
    [request |-> body, chat_id |-> x.chat_id, from_user |-> x.from_user,
     message_id |-> x.message_id, user_text |-> x.user_text,
     message_type |-> x.message_type, joy_girl_response |-> <<>>,
     max_tokens |-> 0, calls |-> calls, results |-> <<>>]

NoResp == [handler |-> "none"]

\* No except clause: the exception leaves the handler.
Caught_reraise(branch) == branch

\* Lines 306-310: the except clause turns an exception into status error.
Caught(branch) == IF branch = "exception" THEN "error" ELSE branch

\* What telegram_webhook returns, with the request it answers, the calls it
\* made and how each of them ended.
WebhookOut(status, response, body, calls, results) ==
    [handler |-> "webhook", status |-> status, response |-> response,
     request |-> body, calls |-> calls, results |-> results]

\* How a send_telegram_message ended, for the handler's log of results.
Delivery(success) == IF success.val THEN "delivered" ELSE "undelivered"

\* A handler left through the except clause of lines 306-310.
WebhookRaised(p) ==
    /\ out' = WebhookOut(Caught("exception"), <<>>, local[p].request,
                         local[p].calls, local[p].results)
    /\ pc' = [pc EXCEPT ![p] = "idle"]
    /\ local' = [local EXCEPT ![p] = IdleLocal]

\* The device before its first poll: it has received nothing and will ask
\* for the ids above DEFAULT_SINCE_ID; polled_at is the number of records
\* that had been appended when it last polled.
NewDevice == [since_id |-> 0, received |-> <<>>, polled_at |-> 0]

InitWith(configs) ==
    /\ cfg \in configs
    /\ recent_messages = <<>>
    /\ waiting_for_reply = FALSE
    /\ notification_sent_time = <<>>
    /\ pc = [p \in Procs |-> "idle"]
    /\ local = [p \in Procs |-> IdleLocal]
    /\ delivered = 0
    /\ appended = <<>>
    /\ out = NoResp
    /\ device = NewDevice

Init == InitWith(Configs)

UNCHANGED_MAILBOX ==
    UNCHANGED <<recent_messages, waiting_for_reply, notification_sent_time,
                appended>>

-----------------------------------------------------------------------------
(* POST /telegram/webhook.  The handler discards what send_telegram_message *)
(* returns; `results` keeps it for the record, as it keeps how every other *)
(* call of the handler ended.                                              *)

\* Webhook resetting the flag as it starts, before it looks at the body.
Webhook_resetsFlag(p, body) ==
    /\ pc[p] = "idle"
    /\ delivered' = delivered + 1
    /\ waiting_for_reply' = FALSE
    /\ LET x == Classify(body) IN
       CASE x.branch = "text" ->
              /\ pc' = [pc EXCEPT ![p] = "w_ai"]
              /\ local' = [local EXCEPT ![p] =
                    WebhookLocal(body, x, AiCalls(cfg.DEEPSEEK_API_KEY))]
              /\ out' = NoResp
         [] x.branch = "voice" ->
              /\ pc' = [pc EXCEPT ![p] = "w_processing"]
              /\ local' = [local EXCEPT ![p] =
                    WebhookLocal(body, x, <<"send_processing">>)]
              /\ out' = NoResp
         [] x.branch = "command" /\ x.user_text = START_COMMAND ->
              /\ pc' = [pc EXCEPT ![p] = "w_greet"]
              /\ local' = [local EXCEPT ![p] =
                    WebhookLocal(body, x, <<"send_greeting">>)]
              /\ out' = NoResp
         [] OTHER ->
              /\ out' = WebhookOut(Caught(x.branch), <<>>, body, <<>>, <<>>)
              /\ UNCHANGED <<pc, local>>
    /\ UNCHANGED <<cfg, device, recent_messages, notification_sent_time,
                   appended>>

\* Lines 236-279: the handler up to its first outbound call, or to its return
\* when it makes none.
Webhook(p, body) ==
    /\ pc[p] = "idle"
    /\ delivered' = delivered + 1
    /\ LET x == Classify(body) IN
       CASE x.branch = "text" ->
              /\ pc' = [pc EXCEPT ![p] = "w_ai"]
              /\ local' = [local EXCEPT ![p] =
                    WebhookLocal(body, x, AiCalls(cfg.DEEPSEEK_API_KEY))]
              /\ out' = NoResp
         [] x.branch = "voice" ->
              /\ pc' = [pc EXCEPT ![p] = "w_processing"]
              /\ local' = [local EXCEPT ![p] =
                    WebhookLocal(body, x, <<"send_processing">>)]
              /\ out' = NoResp
         [] x.branch = "command" /\ x.user_text = START_COMMAND ->
              /\ pc' = [pc EXCEPT ![p] = "w_greet"]
              /\ local' = [local EXCEPT ![p] =
                    WebhookLocal(body, x, <<"send_greeting">>)]
              /\ out' = NoResp
         [] OTHER ->
              /\ out' = WebhookOut(Caught(x.branch), <<>>, body, <<>>, <<>>)
              /\ UNCHANGED <<pc, local>>
    /\ UNCHANGED <<cfg, device>>
    /\ UNCHANGED_MAILBOX

\* Lines 257-259: the greeting is sent (or not); return status command.
WebhookGreeted(p, outcome) ==
    /\ pc[p] = "w_greet"
    /\ LET success == send_telegram_message(cfg.TELEGRAM_BOT_TOKEN, outcome) IN
       IF success.exc THEN WebhookRaised(p)
       ELSE /\ out' = WebhookOut("command", <<>>, local[p].request,
                                 local[p].calls,
                                 Append(local[p].results, Delivery(success)))
            /\ pc' = [pc EXCEPT ![p] = "idle"]
            /\ local' = [local EXCEPT ![p] = IdleLocal]
    /\ UNCHANGED <<cfg, device, delivered>>
    /\ UNCHANGED_MAILBOX

\* Line 267 returns; line 270 starts the download.
WebhookProcessingSent(p, outcome) ==
    /\ pc[p] = "w_processing"
    /\ LET success == send_telegram_message(cfg.TELEGRAM_BOT_TOKEN, outcome) IN
       IF success.exc THEN WebhookRaised(p)
       ELSE /\ pc' = [pc EXCEPT ![p] = "w_download"]
            /\ local' = [local EXCEPT
                  ![p].calls = Append(@, "download_telegram_file"),
                  ![p].results = Append(@, Delivery(success))]
            /\ out' = NoResp
    /\ UNCHANGED <<cfg, device, delivered>>
    /\ UNCHANGED_MAILBOX

\* WebhookDownloaded with a download that has no timeout: a request that
\* fails to answer leaves the handler waiting.
WebhookDownloaded_hanging(p, outcome) ==
    /\ pc[p] = "w_download"
    /\ IF outcome = "bytes"
       THEN /\ pc' = [pc EXCEPT ![p] = "w_transcribe"]
            /\ local' = [local EXCEPT
                  ![p].calls = Append(@, "transcribe_audio"),
                  ![p].results = Append(@, "downloaded")]
       ELSE /\ pc' = [pc EXCEPT ![p] = "w_hung"]
            /\ UNCHANGED local
    /\ out' = NoResp
    /\ UNCHANGED <<cfg, device, delivered>>
    /\ UNCHANGED_MAILBOX

\* WebhookDownloaded without the try/except of lines 269-274: a failed
\* download reaches the handler's except clause.
WebhookDownloaded_unguarded(p, outcome) ==
    /\ pc[p] = "w_download"
    /\ IF outcome = "bytes"
       THEN /\ pc' = [pc EXCEPT ![p] = "w_transcribe"]
            /\ local' = [local EXCEPT
                  ![p].calls = Append(@, "transcribe_audio"),
                  ![p].results = Append(@, "downloaded")]
            /\ out' = NoResp
       ELSE WebhookRaised(p)
    /\ UNCHANGED <<cfg, device, delivered>>
    /\ UNCHANGED_MAILBOX

\* Lines 270-276: the download returns and the transcription starts, or it
\* raises and the fallback text is announced.
WebhookDownloaded(p, outcome) ==
    /\ pc[p] = "w_download"
    /\ IF outcome = "bytes"
       THEN /\ pc' = [pc EXCEPT ![p] = "w_transcribe"]
            /\ local' = [local EXCEPT
                  ![p].calls = Append(@, "transcribe_audio"),
                  ![p].results = Append(@, "downloaded")]
       ELSE /\ pc' = [pc EXCEPT ![p] = "w_said"]
            /\ local' = [local EXCEPT
                  ![p].user_text = VOICE_FALLBACK,
                  ![p].calls = Append(@, "send_said"),
                  ![p].results = Append(@, "download_failed")]
    /\ out' = NoResp
    /\ UNCHANGED <<cfg, device, delivered>>
    /\ UNCHANGED_MAILBOX

\* Lines 271-276: the transcription returns; the text is announced.
WebhookTranscribed(p, outcome) ==
    /\ pc[p] = "w_transcribe"
    /\ pc' = [pc EXCEPT ![p] = "w_said"]
    /\ local' = [local EXCEPT
          ![p].user_text = transcribe_audio(cfg.OPENAI_API_KEY, outcome),
          ![p].calls = Append(@, "send_said"),
          ![p].results = Append(@,
              IF Transcribed(cfg.OPENAI_API_KEY, outcome)
              THEN "transcribed" ELSE "transcription_failed")]
    /\ out' = NoResp
    /\ UNCHANGED <<cfg, device, delivered>>
    /\ UNCHANGED_MAILBOX

\* Line 276 returns; line 282 calls the AI responder.
WebhookSaidSent(p, outcome) ==
    /\ pc[p] = "w_said"
    /\ LET success == send_telegram_message(cfg.TELEGRAM_BOT_TOKEN, outcome) IN
       IF success.exc THEN WebhookRaised(p)
       ELSE /\ pc' = [pc EXCEPT ![p] = "w_ai"]
            /\ local' = [local EXCEPT
                  ![p].calls = @ \o AiCalls(cfg.DEEPSEEK_API_KEY),
                  ![p].results = Append(@, Delivery(success))]
            /\ out' = NoResp
    /\ UNCHANGED <<cfg, device, delivered>>
    /\ UNCHANGED_MAILBOX

\* Lines 282-285: the AI responder returns; the reply is sent.  Were the
\* responder to raise, the except clause of lines 306-310 would answer.
WebhookAnswered(p, outcome) ==
    /\ pc[p] = "w_ai"
    /\ LET r == get_ai_response(cfg.DEEPSEEK_API_KEY, outcome) IN
       IF r.exc
       THEN WebhookRaised(p)
       ELSE /\ pc' = [pc EXCEPT ![p] = "w_reply"]
            /\ local' = [local EXCEPT
                  ![p].joy_girl_response = r.val,
                  ![p].calls = Append(@, "send_reply"),
                  ![p].results = Append(@,
                      IF Completed(cfg.DEEPSEEK_API_KEY, outcome)
                      THEN "completed" ELSE "completion_failed")]
            /\ out' = NoResp
    /\ UNCHANGED <<cfg, device, delivered>>
    /\ UNCHANGED_MAILBOX

\* WebhookReplied with an outbound call between the store and the flag's
\* reset: the step ends at that call.
WebhookReplied_torn(p, outcome) ==
    /\ pc[p] = "w_reply"
    /\ send_telegram_message(cfg.TELEGRAM_BOT_TOKEN, outcome) \in
          {Value(TRUE), Value(FALSE)}
    /\ LET rec == Record(local[p], NOW) IN
       /\ recent_messages' = Store(recent_messages, rec)
       /\ appended' = Append(appended, rec)
    /\ out' = NoResp
    /\ pc' = [pc EXCEPT ![p] = "w_flag"]
    /\ UNCHANGED <<cfg, device, delivered, notification_sent_time,
                   waiting_for_reply, local>>

\* Lines 285-304: the reply is sent (or not); the record is stored, the flag
\* reset and status ok returned, with no outbound call in between.
WebhookReplied(p, outcome) ==
    /\ pc[p] = "w_reply"
    /\ LET success == send_telegram_message(cfg.TELEGRAM_BOT_TOKEN, outcome)
           rec == Record(local[p], NOW) IN
       IF success.exc
       THEN /\ WebhookRaised(p)
            /\ UNCHANGED <<recent_messages, appended, waiting_for_reply>>
       ELSE /\ recent_messages' = Store(recent_messages, rec)
            /\ appended' = Append(appended, rec)
            /\ waiting_for_reply' = FALSE
            /\ out' = WebhookOut("ok", local[p].joy_girl_response,
                                 local[p].request, local[p].calls,
                                 Append(local[p].results, Delivery(success)))
            /\ pc' = [pc EXCEPT ![p] = "idle"]
            /\ local' = [local EXCEPT ![p] = IdleLocal]
    /\ UNCHANGED <<cfg, device, delivered, notification_sent_time>>

-----------------------------------------------------------------------------
(* POST /telegram/notify *)

NotifyOut(http, ok, delivery, timestamp) ==
    [handler |-> "notify", http |-> http, ok |-> ok, delivery |-> delivery,
     timestamp |-> timestamp]

\* Lines 203-216: HTTP 500 without the credentials, else the notification
\* is sent.
Notify(p) ==
    /\ pc[p] = "idle"
    /\ IF ~cfg.TELEGRAM_BOT_TOKEN \/ ~cfg.TELEGRAM_CHAT_ID
       THEN /\ out' = NotifyOut(500, FALSE, "none", <<>>)
            /\ UNCHANGED <<pc, local>>
       ELSE /\ pc' = [pc EXCEPT ![p] = "n_send"]
            /\ local' = [local EXCEPT ![p].calls = <<"send_notification">>]
            /\ out' = NoResp
    /\ UNCHANGED <<cfg, device, delivered>>
    /\ UNCHANGED_MAILBOX

\* NotifySent setting the flag whatever the send returned.
NotifySent_unconditional(p, outcome) ==
    /\ pc[p] = "n_send"
    /\ notification_sent_time' = <<NOW>>
    /\ waiting_for_reply' = TRUE
    /\ LET success == send_telegram_message(cfg.TELEGRAM_BOT_TOKEN, outcome) IN
       out' = NotifyOut(200, ~success.exc /\ success.val, outcome, <<NOW>>)
    /\ pc' = [pc EXCEPT ![p] = "idle"]
    /\ local' = [local EXCEPT ![p] = IdleLocal]
    /\ UNCHANGED <<cfg, device, delivered, recent_messages, appended>>

\* Lines 216-227: the send returns; on success the time is noted and the
\* flag set.  Were the send to raise, the framework would answer HTTP 500.
NotifySent(p, outcome) ==
    /\ pc[p] = "n_send"
    /\ LET success == send_telegram_message(cfg.TELEGRAM_BOT_TOKEN, outcome) IN
       IF success.exc
       THEN /\ out' = NotifyOut(500, FALSE, outcome, <<>>)
            /\ UNCHANGED <<notification_sent_time, waiting_for_reply>>
       ELSE IF success.val
       THEN /\ notification_sent_time' = <<NOW>>
            /\ waiting_for_reply' = TRUE
            /\ out' = NotifyOut(200, TRUE, outcome, <<NOW>>)
       ELSE /\ out' = NotifyOut(200, FALSE, outcome, <<>>)
            /\ UNCHANGED <<notification_sent_time, waiting_for_reply>>
    /\ pc' = [pc EXCEPT ![p] = "idle"]
    /\ local' = [local EXCEPT ![p] = IdleLocal]
    /\ UNCHANGED <<cfg, device, delivered, recent_messages, appended>>

-----------------------------------------------------------------------------
(* The polling endpoints make no outbound call: each is one step.          *)

\* GetMessages handing each record out once: what it returns leaves the
\* mailbox.
GetMessages_consuming(limit, since_id) ==
    /\ LET messages == Query(recent_messages, limit, since_id) IN
       /\ out' = [handler |-> "messages", limit |-> limit,
                  since_id |-> since_id,
                  messages |-> messages, count |-> Len(messages),
                  total |-> Len(recent_messages), waiting |-> waiting_for_reply]
       /\ recent_messages' =
             SelectSeq(recent_messages,
                       LAMBDA m : \A i \in 1..Len(messages) : messages[i] # m)
    /\ UNCHANGED <<cfg, device, pc, local, delivered, waiting_for_reply,
                   notification_sent_time, appended>>

\* Lines 317-325: what get_messages returns.
MessagesResponse(limit, since_id) ==
    LET messages == Query(recent_messages, limit, since_id) IN
    [handler |-> "messages", limit |-> limit, since_id |-> since_id,
     messages |-> messages, count |-> Len(messages),
     total |-> Len(recent_messages), waiting |-> waiting_for_reply]

\* GET /messages?limit=&since_id=
GetMessages(limit, since_id) ==
    /\ out' = MessagesResponse(limit, since_id)
    /\ UNCHANGED <<cfg, device, pc, local, delivered>>
    /\ UNCHANGED_MAILBOX

\* The largest of an id and the ids of the records of a response.
LargestId(id, messages) ==
    LET ids == {id} \cup {messages[i].id : i \in 1..Len(messages)} IN
    CHOOSE m \in ids : \A n \in ids : n <= m

\* The device polls: GET /messages with its limit and, for since_id, the
\* largest id it has received so far; it keeps the records of the response.
DevicePoll(limit) ==
    /\ LET response == MessagesResponse(limit, device.since_id) IN
       /\ out' = response
       /\ device' =
             [since_id |-> LargestId(device.since_id, response.messages),
              received |-> device.received \o response.messages,
              polled_at |-> Len(appended)]
    /\ UNCHANGED <<cfg, pc, local, delivered>>
    /\ UNCHANGED_MAILBOX

\* GET /messages/latest
GetLatestMessage ==
    /\ out' = IF recent_messages # <<>>
              THEN [handler |-> "latest", found |-> TRUE,
                    message |-> <<recent_messages[Len(recent_messages)]>>]
              ELSE [handler |-> "latest", found |-> FALSE, message |-> <<>>]
    /\ UNCHANGED <<cfg, device, pc, local, delivered>>
    /\ UNCHANGED_MAILBOX

\* ClearMessages resetting the flag with the mailbox.
ClearMessages_resetsFlag ==
    /\ recent_messages' = <<>>
    /\ appended' = <<>>
    /\ waiting_for_reply' = FALSE
    /\ out' = [handler |-> "clear", status |-> "cleared"]
    /\ UNCHANGED <<cfg, device, pc, local, delivered, notification_sent_time>>

\* ClearMessages keeping the newest record.
ClearMessages_keepsLatest ==
    /\ recent_messages' = IF recent_messages = <<>> THEN <<>>
                          ELSE <<recent_messages[Len(recent_messages)]>>
    /\ appended' = <<>>
    /\ out' = [handler |-> "clear", status |-> "cleared"]
    /\ UNCHANGED <<cfg, device, pc, local, delivered, waiting_for_reply,
                   notification_sent_time>>

\* DELETE /messages
ClearMessages ==
    /\ recent_messages' = <<>>
    /\ appended' = <<>>
    /\ out' = [handler |-> "clear", status |-> "cleared"]
    /\ UNCHANGED <<cfg, device, pc, local, delivered, waiting_for_reply,
                   notification_sent_time>>

-----------------------------------------------------------------------------
(* POST /chat *)

DEFAULT_MAX_TOKENS == 60

\* Line 381: the AI responder is called with the request's message.
ChatRequest(p, message, max_tokens) ==
    /\ pc[p] = "idle"
    /\ pc' = [pc EXCEPT ![p] = "c_ai"]
    /\ local' = [local EXCEPT ![p].user_text = message,
                              ![p].max_tokens = max_tokens,
                              ![p].calls = AiCalls(cfg.DEEPSEEK_API_KEY)]
    /\ out' = NoResp
    /\ UNCHANGED <<cfg, device, delivered>>
    /\ UNCHANGED_MAILBOX

\* Lines 381-382: the responder returns; its text is the response.  Were it
\* to raise, the framework would answer HTTP 500.
ChatAnswered(p, outcome) ==
    /\ pc[p] = "c_ai"
    /\ LET r == get_ai_response(cfg.DEEPSEEK_API_KEY, outcome) IN
       out' = [handler |-> "chat", http |-> IF r.exc THEN 500 ELSE 200,
               response |-> IF r.exc THEN <<>> ELSE r.val,
               message |-> local[p].user_text,
               max_tokens |-> local[p].max_tokens,
               outcome |-> outcome, calls |-> local[p].calls]
    /\ pc' = [pc EXCEPT ![p] = "idle"]
    /\ local' = [local EXCEPT ![p] = IdleLocal]
    /\ UNCHANGED <<cfg, device, delivered>>
    /\ UNCHANGED_MAILBOX

-----------------------------------------------------------------------------
(* POST /chat/esp32 and chunk_text *)

\* The positions of a string, in order.
Positions(s) == [i \in 1..Len(s) |-> i]

\* The position where the word that starts at position i ends.
WordEnd(s, i) ==
    CHOOSE j \in i..Len(s) :
        /\ \A k \in i..j : s[k] \notin Whitespace
        /\ j = Len(s) \/ s[j + 1] \in Whitespace

\* str.split() without arguments: the maximal runs of characters that are
\* not whitespace, in order.
Split(s) ==
    LET starts == SelectSeq(Positions(s),
                     LAMBDA i : /\ s[i] \notin Whitespace
                                /\ i = 1 \/ s[i - 1] \in Whitespace)
    IN [k \in 1..Len(starts) |-> SubSeq(s, starts[k], WordEnd(s, starts[k]))]

\* Lines 99-108: the loop over the words and the flush after it.
RECURSIVE ChunkWords(_, _, _, _)
ChunkWords(words, chunks, current_chunk, max_chunk_size) ==
    IF words = <<>>
    THEN (IF current_chunk # <<>> THEN Append(chunks, current_chunk)
          ELSE chunks)
    ELSE LET word == Head(words) IN
         IF Len(current_chunk) + Len(word) + 1 <= max_chunk_size
         THEN ChunkWords(Tail(words), chunks,
                         current_chunk
                            \o (IF current_chunk # <<>> THEN <<" ">> ELSE <<>>)
                            \o word,
                         max_chunk_size)
         ELSE ChunkWords(Tail(words),
                         IF current_chunk # <<>>
                         THEN Append(chunks, current_chunk) ELSE chunks,
                         word, max_chunk_size)

\* chunk_text (lines 93-110)
chunk_text(text, max_chunk_size) ==
    ChunkWords(Split(text), <<>>, <<>>, max_chunk_size)

\* The default of max_chunk_size (line 93).
DEFAULT_CHUNK_SIZE == 120

\* chunk_text applied to a text and a limit.
ChunkText(text, max_chunk_size) ==
    /\ out' = [handler |-> "chunk_text", text |-> text,
               max_chunk_size |-> max_chunk_size,
               chunks |-> chunk_text(text, max_chunk_size)]
    /\ UNCHANGED <<cfg, device, pc, local, delivered>>
    /\ UNCHANGED_MAILBOX

\* Line 386: the AI responder is called with the request's message.
ChatEsp32Request(p, message, max_tokens) ==
    /\ pc[p] = "idle"
    /\ pc' = [pc EXCEPT ![p] = "e_ai"]
    /\ local' = [local EXCEPT ![p].user_text = message,
                              ![p].max_tokens = max_tokens,
                              ![p].calls = AiCalls(cfg.DEEPSEEK_API_KEY)]
    /\ out' = NoResp
    /\ UNCHANGED <<cfg, device, delivered>>
    /\ UNCHANGED_MAILBOX

\* Lines 386-393: the responder returns; its text is chunked with the
\* default limit.  Were it to raise, the framework would answer HTTP 500.
ChatEsp32Answered(p, outcome) ==
    /\ pc[p] = "e_ai"
    /\ LET r == get_ai_response(cfg.DEEPSEEK_API_KEY, outcome)
           chunks == IF r.exc THEN <<>>
                     ELSE chunk_text(r.val, DEFAULT_CHUNK_SIZE) IN
       out' = [handler |-> "chat_esp32", http |-> IF r.exc THEN 500 ELSE 200,
               chunks |-> chunks, total_chunks |-> Len(chunks),
               text |-> IF r.exc THEN <<>> ELSE r.val,
               max_chunk_size |-> DEFAULT_CHUNK_SIZE]
    /\ pc' = [pc EXCEPT ![p] = "idle"]
    /\ local' = [local EXCEPT ![p] = IdleLocal]
    /\ UNCHANGED <<cfg, device, delivered>>
    /\ UNCHANGED_MAILBOX

-----------------------------------------------------------------------------
(* The relay service: webhook deliveries of every shape, notifications and *)
(* the polling device, on NumProcs concurrent handlers.                    *)

DEFAULT_LIMIT == 5
DEFAULT_SINCE_ID == 0

Next ==
    \/ \E p \in Procs, i \in 1..Len(Updates) :
          delivered < MaxDeliveries /\ Webhook(p, Updates[i])
    \/ \E p \in Procs, o \in ServiceSendOutcomes : WebhookGreeted(p, o)
    \/ \E p \in Procs, o \in ServiceSendOutcomes : WebhookProcessingSent(p, o)
    \/ \E p \in Procs, o \in DownloadOutcomes : WebhookDownloaded(p, o)
    \/ \E p \in Procs, o \in ServiceTranscribeOutcomes : WebhookTranscribed(p, o)
    \/ \E p \in Procs, o \in ServiceSendOutcomes : WebhookSaidSent(p, o)
    \/ \E p \in Procs, o \in ServiceAiOutcomes : WebhookAnswered(p, o)
    \/ \E p \in Procs, o \in ServiceSendOutcomes : WebhookReplied(p, o)
    \/ \E p \in Procs : Notify(p)
    \/ \E p \in Procs, o \in SendOutcomes : NotifySent(p, o)
    \/ GetMessages(DEFAULT_LIMIT, DEFAULT_SINCE_ID)
    \/ GetLatestMessage
    \/ ClearMessages

Spec == Init /\ [][Next]_vars

-----------------------------------------------------------------------------
(* A burst of a conversation: text messages with consecutive message ids,  *)
(* one delivery at a time, every credential set, while the device polls    *)
(* and clears.                                                             *)

Limits == 0..MaxLimit
SinceIds == {-1, 0, 1, 2, MAX_MESSAGES}

InitBurst == InitWith({AllSet})

NextBurst ==
    \/ delivered < MaxBurst /\ Webhook(1, TextUpdate(delivered + 1, HI))
    \/ WebhookAnswered(1, Completion("completion", REPLY))
    \/ \E o \in ServiceSendOutcomes : WebhookReplied(1, o)
    \/ \E n \in Limits, s \in SinceIds : GetMessages(n, s)
    \/ GetLatestMessage
    \/ ClearMessages

SpecBurst == InitBurst /\ [][NextBurst]_vars

-----------------------------------------------------------------------------
(* A redelivery storm: the platform delivers one and the same update again *)
(* and again to concurrent handlers, while notifications are triggered and *)
(* the device polls and clears.                                            *)

NextStorm ==
    \/ \E p \in Procs : delivered < MaxBurst /\ Webhook(p, TextUpdate(7, HI))
    \/ \E p \in Procs : WebhookAnswered(p, Completion("completion", REPLY))
    \/ \E p \in Procs, o \in ServiceSendOutcomes : WebhookReplied(p, o)
    \/ \E p \in Procs : Notify(p)
    \/ \E p \in Procs, o \in SendOutcomes : NotifySent(p, o)
    \/ GetMessages(DEFAULT_LIMIT, DEFAULT_SINCE_ID)
    \/ ClearMessages

SpecStorm == InitBurst /\ [][NextStorm]_vars

-----------------------------------------------------------------------------
(* The chat endpoint: the AI responder alone, against every outcome of the *)
(* provider and with and without the credentials.                          *)

ChatMessages == {HI, <<>>}
ChatMaxTokens == {DEFAULT_MAX_TOKENS, 1}

NextChat ==
    \/ \E p \in Procs, m \in ChatMessages, t \in ChatMaxTokens :
          ChatRequest(p, m, t)
    \/ \E p \in Procs, o \in AiOutcomes : ChatAnswered(p, o)

SpecChat == Init /\ [][NextChat]_vars

-----------------------------------------------------------------------------
(* Failing collaborators: text and voice messages are relayed while every  *)
(* outbound call ends in any of its ways, in every environment.            *)

NextFaults ==
    \/ \E i \in 1..Len(RelayUpdates) :
          delivered < MaxDeliveries /\ Webhook(1, RelayUpdates[i])
    \/ \E o \in SendOutcomes : WebhookProcessingSent(1, o)
    \/ \E o \in DownloadOutcomes : WebhookDownloaded(1, o)
    \/ \E o \in TranscribeOutcomes : WebhookTranscribed(1, o)
    \/ \E o \in SendOutcomes : WebhookSaidSent(1, o)
    \/ \E o \in AiOutcomes : WebhookAnswered(1, o)
    \/ \E o \in SendOutcomes : WebhookReplied(1, o)

SpecFaults == Init /\ [][NextFaults]_vars

-----------------------------------------------------------------------------
(* chunk_text on every text of up to MaxTextLen characters and every limit *)
(* up to MaxChunkSize, and the ESP32 chat endpoint, which chunks what the  *)
(* AI provider completes.  chunk_text keeps no state: it is applied where  *)
(* no response is pending, once, and not again to its own result.          *)

TextChars == {"a", " ", "\n"}
Texts == UNION {[1..k -> TextChars] : k \in 0..MaxTextLen}
ChunkSizes == 1..MaxChunkSize

\* A completion in a script written without spaces: one word, a character
\* longer than the default limit.
UNSPACED == [i \in 1..(DEFAULT_CHUNK_SIZE + 1) |-> "a"]

Esp32Outcomes ==
    { Completion("completion", REPLY),
      Completion("completion", UNSPACED \o <<" ">> \o HI),
      Completion("status", <<>>),
      Completion("exception", <<>>) }

NextChunk ==
    \/ \E text \in Texts, n \in ChunkSizes :
          out = NoResp /\ ChunkText(text, n)
    \/ \E p \in Procs : ChatEsp32Request(p, HI, DEFAULT_MAX_TOKENS)
    \/ \E p \in Procs, o \in Esp32Outcomes : ChatEsp32Answered(p, o)

SpecChunk == InitBurst /\ [][NextChunk]_vars

-----------------------------------------------------------------------------
(* The relay service with every outbound call ending: each client has a    *)
(* timeout (30 s for the platform and the AI provider, 60 s for the        *)
(* transcription), so the call a handler awaits returns or raises, and the *)
(* event loop then resumes the handler.                                    *)

\* The step that resumes handler p when the call it awaits has ended.
Resume(p) ==
    \/ \E o \in ServiceSendOutcomes : WebhookGreeted(p, o)
    \/ \E o \in ServiceSendOutcomes : WebhookProcessingSent(p, o)
    \/ \E o \in DownloadOutcomes : WebhookDownloaded(p, o)
    \/ \E o \in ServiceTranscribeOutcomes : WebhookTranscribed(p, o)
    \/ \E o \in ServiceSendOutcomes : WebhookSaidSent(p, o)
    \/ \E o \in ServiceAiOutcomes : WebhookAnswered(p, o)
    \/ \E o \in ServiceSendOutcomes : WebhookReplied(p, o)
    \/ \E o \in SendOutcomes : NotifySent(p, o)

\* The bodies that lead a handler to an outbound call.
CallingUpdates == <<TextUpdate(3, START_COMMAND)>> \o RelayUpdates

\* Deliveries are handled in the first slot and notifications in the last,
\* so that a webhook handler and a notify handler run concurrently.
NextLive ==
    \/ \E i \in 1..Len(CallingUpdates) :
          delivered < MaxDeliveries /\ Webhook(1, CallingUpdates[i])
    \/ Notify(NumProcs)
    \/ \E p \in Procs : Resume(p)
    \/ GetMessages(DEFAULT_LIMIT, DEFAULT_SINCE_ID)
    \/ GetLatestMessage
    \/ ClearMessages

SpecLive ==
    Init /\ [][NextLive]_vars /\ \A p \in Procs : WF_vars(Resume(p))

-----------------------------------------------------------------------------
(* The polling device: text messages arrive with consecutive message ids,  *)
(* the first of them 0 (a body without message_id) or 1, one delivery at a *)
(* time, and nothing is cleared.  The device polls often enough: no more   *)
(* records are appended between two polls than the limit of the second,    *)
(* and no more than MAX_MESSAGES.                                          *)

StartIds == {0, 1}

\* The ids the next delivery may carry.
NextIds ==
    IF appended = <<>> THEN StartIds ELSE {appended[Len(appended)].id + 1}

\* The records appended since the device polled.
Unseen == Len(appended) - device.polled_at

PollLimits == {0, 1, MaxLimit, MAX_MESSAGES + 1}

NextPoll ==
    \/ \E id \in NextIds :
          /\ delivered < MaxBurst /\ Unseen < MAX_MESSAGES
          /\ Webhook(1, TextUpdate(id, HI))
    \/ WebhookAnswered(1, Completion("completion", REPLY))
    \/ \E o \in ServiceSendOutcomes : WebhookReplied(1, o)
    \/ \E n \in PollLimits : Unseen <= n /\ DevicePoll(n)

SpecPoll == InitBurst /\ [][NextPoll]_vars

-----------------------------------------------------------------------------
(* A race: the platform delivers a conversation's messages, text and       *)
(* voice, with message ids in the order it received them, without waiting  *)
(* for the answer to one before it delivers the next; the handlers run     *)
(* concurrently, each as long as its calls take.                           *)

\* A voice message of Alice with a given message id.
VoiceUpdate(id) ==
    Body(Obj([message |-> Obj([chat |-> Chat(1), message_id |-> Num(id),
                               from |-> From(ALICE),
                               voice |-> Obj([file_id |-> Str(AUDIO_FILE)])])]))

NextRace ==
    \/ \E p \in Procs :
          delivered < MaxRace /\ Webhook(p, TextUpdate(delivered + 1, HI))
    \/ \E p \in Procs :
          delivered < MaxRace /\ Webhook(p, VoiceUpdate(delivered + 1))
    \/ \E p \in Procs : WebhookProcessingSent(p, "200")
    \/ \E p \in Procs : WebhookDownloaded(p, "bytes")
    \/ \E p \in Procs : WebhookTranscribed(p, Transcript("text", HI))
    \/ \E p \in Procs : WebhookSaidSent(p, "200")
    \/ \E p \in Procs : WebhookAnswered(p, Completion("completion", REPLY))
    \/ \E p \in Procs : WebhookReplied(p, "200")

SpecRace == InitBurst /\ [][NextRace]_vars

-----------------------------------------------------------------------------
(* Properties *)



\* The last n elements of a sequence (all of it when it has fewer).
LastN(seq, n) ==
    IF Len(seq) <= n THEN seq ELSE SubSeq(seq, Len(seq) - n + 1, Len(seq))

\* C1: after any sequence of appends the mailbox holds at most MAX_MESSAGES
\* records, and they are the min(MAX_MESSAGES, k) most recently appended of
\* the k records appended since the last clear, in their order: the oldest
\* is evicted first.
C1_MailboxKeepsNewest ==
    /\ Len(recent_messages) <= MAX_MESSAGES
    /\ recent_messages = LastN(appended, MAX_MESSAGES)

\* Two records beyond the bound were appended: the records with message ids
\* 1 and 2 are gone, 3 to 22 remain.
C1_Witness ==
    /\ Len(appended) = MAX_MESSAGES + 2
    /\ Len(recent_messages) = MAX_MESSAGES
    /\ recent_messages[1].id = 3
    /\ recent_messages[MAX_MESSAGES].id = MAX_MESSAGES + 2

\* The records of the mailbox with an id above since_id.
Qualifying(since_id) == SelectSeq(recent_messages, LAMBDA m : m.id > since_id)

\* C2: a query with limit N >= 0 and since_id S returns at most N records,
\* all with id > S, in insertion order: the N most recently appended of the
\* qualifying records when more than N qualify, none when none qualifies.
C2_QueryReturnsAtMostLimit ==
    out.handler = "messages" /\ out.limit >= 0 =>
        /\ Len(out.messages) <= out.limit
        /\ \A i \in 1..Len(out.messages) : out.messages[i].id > out.since_id
        /\ out.messages = LastN(Qualifying(out.since_id), out.limit)


\* C3: waiting_for_reply is false initially; it becomes true exactly when a
\* notification's delivery is confirmed, false exactly when a webhook
\* appends its record and returns ok, and no other step changes it.
C3_FlagFollowsEvents ==
    /\ ~waiting_for_reply
    /\ [][/\ (out'.handler = "notify" /\ out'.delivery = "200")
                => waiting_for_reply'
          /\ (out'.handler = "webhook" /\ out'.status = "ok")
                => ~waiting_for_reply'
          /\ (waiting_for_reply' /\ ~waiting_for_reply)
                => (out'.handler = "notify" /\ out'.delivery = "200")
          /\ (~waiting_for_reply' /\ waiting_for_reply)
                => /\ out'.handler = "webhook" /\ out'.status = "ok"
                   /\ Len(appended') = Len(appended) + 1]_vars

\* A webhook has just reset the flag a confirmed notification had set.
C3_Witness ==
    /\ out.handler = "webhook" /\ out.status = "ok"
    /\ notification_sent_time # <<>>
    /\ ~waiting_for_reply

\* The message of a webhook body whose chat, sender and message id are as
\* the platform sends them.
IsMessage(body) ==
    /\ body.valid /\ body.json.t = "obj"
    /\ "message" \in DOMAIN body.json.v
    /\ LET m == body.json.v["message"] IN
       /\ m.t = "obj"
       /\ "chat" \in DOMAIN m.v /\ m.v["chat"].t = "obj"
       /\ "id" \in DOMAIN m.v["chat"].v
       /\ "from" \in DOMAIN m.v => m.v["from"].t = "obj"
       /\ "message_id" \in DOMAIN m.v /\ m.v["message_id"].t = "num"

\* A message with a text
IsTextMessage(body) ==
    /\ IsMessage(body)
    /\ "text" \in DOMAIN body.json.v["message"].v
    /\ body.json.v["message"].v["text"].t = "str"

TextOf(body) == body.json.v["message"].v["text"].v
MessageIdOf(body) == body.json.v["message"].v["message_id"].v

\* C4: a confirmed notification returns ok = true and sets the flag; a webhook
\* delivering a text message that starts with no "/" returns status ok with
\* the AI responder's reply, appends exactly one record, with the message's
\* id and text and type text, and leaves the flag false.
C4_EndToEnd ==
    [][/\ (out'.handler = "notify" /\ out'.delivery = "200")
             => out'.ok /\ out'.http = 200 /\ waiting_for_reply'
       /\ (/\ out'.handler = "webhook"
           /\ IsTextMessage(out'.request)
           /\ ~StartsWith(TextOf(out'.request), <<"/">>))
             => /\ out'.status = "ok"
                /\ \E p \in Procs :
                      /\ pc[p] = "w_reply" /\ pc'[p] = "idle"
                      /\ local[p].request = out'.request
                      /\ out'.response = local[p].joy_girl_response
                /\ recent_messages' # <<>>
                /\ LET r == recent_messages'[Len(recent_messages')] IN
                   /\ recent_messages' =
                         LastN(Append(recent_messages, r), MAX_MESSAGES)
                   /\ r.id = MessageIdOf(out'.request)
                   /\ r.text = TextOf(out'.request)
                   /\ r.type = "text"
                   /\ r.response = out'.response
                /\ ~waiting_for_reply']_vars

\* The scenario: after a confirmed notification the message 7, "hi", was
\* relayed.
C4_Witness ==
    /\ out.handler = "webhook" /\ out.status = "ok"
    /\ out.request = TextUpdate(7, HI)
    /\ out.response = <<"Y", "a", "y", "!">>
    /\ notification_sent_time # <<>>
    /\ Len(recent_messages) = 1
    /\ recent_messages[1].id = 7 /\ recent_messages[1].text = HI
    /\ ~waiting_for_reply

\* C5: handlers interleave at their outbound calls only, and the mailbox
\* operations are atomic: a webhook that returns ok has added exactly its one
\* record to the mailbox as it stood (no update is lost), no state holds
\* more than MAX_MESSAGES records (nor does a poll report more), and the step
\* that appends a record resets the flag.
C5_MailboxAtomic ==
    /\ [](/\ Len(recent_messages) <= MAX_MESSAGES
          /\ out.handler = "messages" =>
                out.total = Len(recent_messages) /\ out.total <= MAX_MESSAGES)
    /\ [][/\ (out'.handler = "webhook" /\ out'.status = "ok")
                => /\ recent_messages' # <<>>
                   /\ recent_messages' =
                         LastN(Append(recent_messages,
                                      recent_messages'[Len(recent_messages')]),
                               MAX_MESSAGES)
          /\ (recent_messages' # recent_messages /\ recent_messages' # <<>>)
                => /\ ~waiting_for_reply'
                   /\ out'.handler = "webhook" /\ out'.status = "ok"]_vars

\* One handler returns ok with the mailbox full while another is still in
\* flight, after a notification was confirmed.
C5_Witness ==
    /\ out.handler = "webhook" /\ out.status = "ok"
    /\ Len(recent_messages) = MAX_MESSAGES
    /\ Len(appended) > MAX_MESSAGES
    /\ \E p \in Procs : pc[p] = "w_reply"
    /\ notification_sent_time # <<>>


\* The fixed texts the AI responder returns in place of a completion.
ErrorTexts == {ERR_NO_KEY, ERR_GLITCH, ERR_CONNECTION}

\* The provider answered with something other than a completion.
ProviderFailed == out.outcome.kind # "completion"

IsTrimOf(r, s) ==
    /\ r # <<>> => r[1] \notin Whitespace /\ r[Len(r)] \notin Whitespace
    /\ \E i \in 0..Len(s) :
          /\ i + Len(r) <= Len(s)
          /\ SubSeq(s, i + 1, i + Len(r)) = r
          /\ \A k \in 1..i : s[k] \in Whitespace
          /\ \A k \in (i + Len(r) + 1)..Len(s) : s[k] \in Whitespace

\* C7: respond() never raises; without a key it returns the fixed error text
\* and issues no request; when the provider fails (another status, a timeout
\* or transport error, an unparsable body) it returns a fixed error text; on
\* a 200 answer it returns the completion without its surrounding whitespace.
C7_ResponderNeverRaises ==
    out.handler = "chat" =>
        /\ out.http = 200
        /\ ~cfg.DEEPSEEK_API_KEY =>
              /\ out.response = ERR_NO_KEY
              /\ out.calls = <<"get_ai_response">>
        /\ (cfg.DEEPSEEK_API_KEY /\ ProviderFailed) =>
              out.response \in {ERR_GLITCH, ERR_CONNECTION}
        /\ (cfg.DEEPSEEK_API_KEY /\ ~ProviderFailed) =>
              IsTrimOf(out.response, out.outcome.content)

\* The transport raised, and the responder returned the connection error.
C7_Witness ==
    /\ out.handler = "chat" /\ out.http = 200
    /\ cfg.DEEPSEEK_API_KEY
    /\ out.outcome.kind = "exception"
    /\ out.response = ERR_CONNECTION

\* C8: the webhook handler never raises: whatever the body and whatever the
\* collaborators answer, it returns one of ignored, command, unsupported, ok
\* and error, and error when the body cannot be decoded or is no container.
C8_WebhookStatus ==
    out.handler = "webhook" =>
        /\ out.status \in {"ignored", "command", "unsupported", "ok", "error"}
        /\ (~out.request.valid \/ out.request.json.t \in {"num", "null"})
              => out.status = "error"

\* A body that is no JSON was answered with status error.
C8_Witness ==
    /\ out.handler = "webhook"
    /\ ~out.request.valid
    /\ out.status = "error"

\* C9: a webhook whose text starts with "/" returns status command, calls no
\* AI responder, appends no record and leaves the mailbox and the flag as
\* they are; the greeting is sent only for the text "/start".
C9_CommandNotRelayed ==
    [][/\ (/\ out'.handler = "webhook"
           /\ IsTextMessage(out'.request)
           /\ StartsWith(TextOf(out'.request), <<"/">>))
             => /\ out'.status = "command"
                /\ out'.calls = IF TextOf(out'.request) = <<"/", "s", "t", "a", "r", "t">>
                                THEN <<"send_greeting">> ELSE <<>>
                /\ UNCHANGED <<recent_messages, appended, waiting_for_reply>>
       /\ \A p \in Procs :
             (/\ pc'[p] # pc[p]
              /\ IsTextMessage(local'[p].request)
              /\ StartsWith(TextOf(local'[p].request), <<"/">>))
                => /\ "get_ai_response" \notin
                         {local'[p].calls[i] : i \in 1..Len(local'[p].calls)}
                   /\ UNCHANGED <<recent_messages, appended, waiting_for_reply>>]_vars

\* "/start" was answered with status command after its greeting, the flag
\* still set.
C9_Witness ==
    /\ out.handler = "webhook" /\ out.status = "command"
    /\ out.request = TextUpdate(3, START_COMMAND)
    /\ out.calls = <<"send_greeting">>
    /\ waiting_for_reply

\* C10: a webhook that ends with status ignored, unsupported or error creates
\* no record and leaves the mailbox and the flag as they were.
C10_NoEffectWithoutRelay ==
    [][(out'.handler = "webhook"
         /\ out'.status \in {"ignored", "unsupported", "error"})
          => UNCHANGED <<recent_messages, appended, waiting_for_reply>>]_vars

\* A message with neither text nor voice was answered unsupported, the flag
\* still set.
C10_Witness ==
    /\ out.handler = "webhook" /\ out.status = "unsupported"
    /\ waiting_for_reply

-----------------------------------------------------------------------------
\* C11: a clear empties the store whatever it holds, and while no record has
\* been appended since, every query, with any limit and any since_id, answers
\* no messages, count 0 and total 0, and latest answers its none indicator.
C11_ClearEmpties ==
    /\ [](appended = <<>> =>
            /\ out.handler = "messages" =>
                  out.messages = <<>> /\ out.count = 0 /\ out.total = 0
            /\ out.handler = "latest" => ~out.found /\ out.message = <<>>)
    /\ [][out'.handler = "clear" => recent_messages' = <<>>]_vars

\* Two records were stored, then cleared; the widest query (limit 0 keeps
\* every qualifying record, since_id -1 qualifies every id) is answered.
C11_Witness ==
    /\ delivered = 2 /\ pc[1] = "idle" /\ appended = <<>>
    /\ out.handler = "messages" /\ out.limit = 0 /\ out.since_id = -1

-----------------------------------------------------------------------------
\* A step that appends a record, and a step that answers DELETE /messages.
IsAppendStep == Len(appended') = Len(appended) + 1
IsClearStep == out'.handler = "clear"

\* What every query of the device would return in a state, and in the next.
SameAnswers ==
    \/ recent_messages' = recent_messages
    \/ \A n \in Limits, s \in SinceIds :
          Query(recent_messages', n, s) = Query(recent_messages, n, s)

\* C12 as stated: no step other than an append changes what a query with
\* given limit and since_id returns, so two such queries with no append in
\* between return identical record sequences.
C12_IdempotentWithoutAppend ==
    [][~IsAppendStep => SameAnswers]_vars

\* C12: no step other than an append or a clear changes what a query with
\* given limit and since_id returns (a query itself least of all), and a
\* query answered right after a query with the same arguments returns the
\* identical record sequence.
C12_IdempotentWithoutAppendOrClear ==
    /\ [][~IsAppendStep /\ ~IsClearStep => SameAnswers]_vars
    /\ [][(/\ out.handler = "messages" /\ out'.handler = "messages"
           /\ out'.limit = out.limit /\ out'.since_id = out.since_id)
          => out'.messages = out.messages]_vars

\* A query that returned the last two of three stored records.
C12_Witness ==
    /\ out.handler = "messages" /\ out.limit = 2 /\ out.since_id = 0
    /\ out.count = 2 /\ out.total = 3

-----------------------------------------------------------------------------
\* C13: a webhook request appends a record in the step that returns status
\* ok, one record, and in no other step; a step that appends leaves the
\* records of the mailbox as they are, in their order, and drops none but
\* the oldest, and that only when the mailbox holds MAX_MESSAGES; a clear
\* empties it; every other step leaves the mailbox untouched.
C13_RecordLifecycle ==
    [][/\ (out'.handler = "webhook" /\ out'.status = "ok") <=> IsAppendStep
       /\ IsAppendStep =>
             /\ appended' = Append(appended, appended'[Len(appended')])
             /\ recent_messages' =
                   Append(IF Len(recent_messages) < MAX_MESSAGES
                          THEN recent_messages ELSE Tail(recent_messages),
                          appended'[Len(appended')])
       /\ IsClearStep => recent_messages' = <<>>
       /\ ~IsAppendStep /\ ~IsClearStep => recent_messages' = recent_messages
      ]_vars

\* The 21st record was just stored: the record with id 1 left, the records
\* with ids 2 to 20 moved up unchanged.
C13_Witness ==
    /\ out.handler = "webhook" /\ out.status = "ok"
    /\ Len(appended) = MAX_MESSAGES + 1
    /\ recent_messages = Tail(appended)
    /\ recent_messages[1].id = 2

-----------------------------------------------------------------------------
\* C14: POST /telegram/notify answers HTTP 500, with no send attempted, when
\* the bot token or the recipient id is unset; else it answers ok exactly
\* when the send was answered 200, and ok false otherwise.  A notify that
\* does not answer ok leaves the flag, the notification time and the mailbox
\* unchanged, one that answers ok sets the flag and leaves the mailbox, and
\* the flag is raised by no other step.  send_telegram_message returns True
\* only with a token and a 200 answer, False otherwise, and never raises.
C14_NotifyFailures ==
    /\ [](/\ \A token \in BOOLEAN, o \in SendOutcomes :
                send_telegram_message(token, o) = Value(token /\ o = "200")
          /\ out.handler = "notify" =>
                /\ out.http \in {200, 500}
                /\ out.http = 500 <=>
                      (~cfg.TELEGRAM_BOT_TOKEN \/ ~cfg.TELEGRAM_CHAT_ID)
                /\ out.http = 500 => ~out.ok /\ out.delivery = "none"
                /\ out.http = 200 =>
                      /\ out.delivery \in SendOutcomes
                      /\ out.ok <=> out.delivery = "200")
    /\ [][/\ out'.handler = "notify" /\ ~out'.ok =>
                UNCHANGED <<waiting_for_reply, notification_sent_time,
                            recent_messages>>
          /\ out'.handler = "notify" /\ out'.ok =>
                waiting_for_reply' /\ UNCHANGED recent_messages
          /\ ~waiting_for_reply /\ waiting_for_reply' =>
                out'.handler = "notify" /\ out'.ok]_vars

\* With both credentials set the platform refused the notification (or the
\* request failed) while a record was in the mailbox: ok false.
C14_Witness ==
    /\ out.handler = "notify" /\ out.http = 200 /\ ~out.ok
    /\ out.delivery \in {"400", "exception"}
    /\ recent_messages # <<>> /\ ~waiting_for_reply

-----------------------------------------------------------------------------
\* How the calls of an answered request ended.
Results(o) == {o.results[i] : i \in 1..Len(o.results)}

HasVoice(body) ==
    /\ "voice" \in DOMAIN body.json.v["message"].v
    /\ "text" \notin DOMAIN body.json.v["message"].v

\* C15: whichever of its calls fail (download, transcription, completion,
\* any of the sends), a webhook request carrying a text that is no command,
\* or a voice message, is answered status ok, and the step that answers
\* appends one record, the only one of the request; when the download
\* failed the record's text is VOICE_FALLBACK, when the transcription failed
\* it is PLACEHOLDER_TRANSCRIPT, and the type is voice in both cases.
C15_FailuresAbsorbed ==
    /\ [](out.handler = "webhook" =>
            /\ out.status = "ok"
            /\ appended # <<>>
            /\ LET rec == appended[Len(appended)] IN
               /\ rec.type = IF HasVoice(out.request) THEN "voice" ELSE "text"
               /\ rec.response = out.response
               /\ "download_failed" \in Results(out) =>
                     rec.text = VOICE_FALLBACK /\ rec.type = "voice"
               /\ "transcription_failed" \in Results(out) =>
                     rec.text = PLACEHOLDER_TRANSCRIPT /\ rec.type = "voice")
    /\ [][/\ out'.handler = "webhook" <=> IsAppendStep
          /\ IsAppendStep =>
                recent_messages' =
                    Append(recent_messages, appended'[Len(appended')])
         ]_vars

\* With every credential set, a voice message whose download failed, whose
\* completion failed and none of whose three sends was delivered.
C15_Witness ==
    /\ cfg = AllSet
    /\ out.handler = "webhook" /\ out.status = "ok"
    /\ out.results = <<"undelivered", "download_failed", "undelivered",
                       "completion_failed", "undelivered">>
    /\ Len(recent_messages) = 1

-----------------------------------------------------------------------------
\* A text with every run of whitespace turned into one space: of a run the
\* last character is kept, as a space.
Collapse(s) ==
    LET kept == SelectSeq([i \in 1..Len(s) |-> i],
                   LAMBDA i : ~(/\ s[i] \in Whitespace
                                /\ i < Len(s)
                                /\ s[i + 1] \in Whitespace))
    IN [k \in 1..Len(kept) |->
           IF s[kept[k]] \in Whitespace THEN " " ELSE s[kept[k]]]

\* The chunks joined with single spaces.
RECURSIVE JoinSpaces(_)
JoinSpaces(chunks) ==
    IF chunks = <<>> THEN <<>>
    ELSE IF Len(chunks) = 1 THEN chunks[1]
    ELSE chunks[1] \o <<" ">> \o JoinSpaces(Tail(chunks))

\* A chunk is made of whole words: it neither starts nor ends with a space
\* and holds no whitespace but single spaces.
WordBounded(chunk) ==
    /\ chunk # <<>>
    /\ chunk[1] # " " /\ chunk[Len(chunk)] # " "
    /\ \A i \in 1..Len(chunk) : chunk[i] \in Whitespace => chunk[i] = " "
    /\ \A i \in 1..(Len(chunk) - 1) : ~(chunk[i] = " " /\ chunk[i + 1] = " ")

\* C16: for every text and limit, chunk_text returns chunks made of whole
\* words, none empty, none longer than the limit, and the chunks joined with
\* single spaces are the text with its whitespace runs turned into single
\* spaces and its ends trimmed (so no word is split between two chunks).
C16_ChunksWithinLimit ==
    out.handler \in {"chunk_text", "chat_esp32"} =>
        /\ \A i \in 1..Len(out.chunks) : WordBounded(out.chunks[i])
        /\ \A i \in 1..Len(out.chunks) :
              Len(out.chunks[i]) <= out.max_chunk_size
        /\ JoinSpaces(out.chunks) = Strip(Collapse(out.text))

-----------------------------------------------------------------------------
\* A handler's log of calls names no call twice.
NoRepeat(calls) ==
    \A i, j \in 1..Len(calls) : calls[i] = calls[j] => i = j

\* C17: when every outbound call ends, a handler that awaits one comes to
\* its end, and the step that ends it returns the response of its request;
\* a poll, a latest and a clear can always be answered, in one step with no
\* outbound call; and no handler makes any of its calls twice (one attempt
\* per provider and request, no retry).
C17_EveryRequestAnswered ==
    /\ \A p \in Procs : (pc[p] # "idle") ~> (pc[p] = "idle")
    /\ [][\A p \in Procs :
             pc[p] # "idle" /\ pc'[p] = "idle" =>
                out'.handler = (IF pc[p] = "n_send" THEN "notify"
                                ELSE "webhook")]_vars
    /\ [](/\ ENABLED GetMessages(DEFAULT_LIMIT, DEFAULT_SINCE_ID)
          /\ ENABLED GetLatestMessage
          /\ ENABLED ClearMessages
          /\ \A p \in Procs : NoRepeat(local[p].calls)
          /\ out.handler = "webhook" => NoRepeat(out.calls))

\* A voice message answered after all its five calls and the completion's
\* request: the longest a handler runs.
C17_Witness ==
    /\ out.handler = "webhook" /\ out.status = "ok"
    /\ out.calls = <<"send_processing", "download_telegram_file",
                     "transcribe_audio", "send_said", "get_ai_response",
                     "deepseek_request", "send_reply">>
    /\ \A p \in Procs : pc[p] = "idle"

-----------------------------------------------------------------------------
\* What the polling contract promises: the device has received, once each
\* and in the order of their insertion, the records that had been appended
\* when it last polled, and it asks from the id of the last of them.
DeviceHasAll ==
    /\ device.received = SubSeq(appended, 1, device.polled_at)
    /\ device.received # <<>> =>
          device.since_id = device.received[Len(device.received)].id

\* C18 as stated: with strictly increasing ids, no clear and polls often
\* enough, a device asking from the largest id it has received, 0 at first,
\* receives every appended record once, in insertion order.
C18_PollingComplete == DeviceHasAll

\* C18: the same of records whose ids are all above 0, the since_id of the
\* first poll.
C18_PollingCompletePositiveIds ==
    (\A i \in 1..Len(appended) : appended[i].id > 0) => DeviceHasAll

\* The device has received the records with ids 1 to 22, the first two of
\* which have left the mailbox, the last of them just now.
C18_Witness ==
    /\ Len(device.received) = MAX_MESSAGES + 2
    /\ device.received[1].id = 1
    /\ Len(recent_messages) = MAX_MESSAGES
    /\ out.handler = "messages" /\ out.count > 0

-----------------------------------------------------------------------------
\* C19: the records of messages delivered with increasing message ids are
\* in the mailbox in the order of the deliveries, that is with increasing
\* ids, however long each handler's calls took.
C19_ReceiptOrder ==
    \A i, j \in 1..Len(recent_messages) :
        i < j => recent_messages[i].id < recent_messages[j].id

-----------------------------------------------------------------------------
\* C20: a query and a latest change neither the mailbox nor the flag (nor
\* the notification time, nor any handler); a clear empties the mailbox and
\* changes nothing else, the flag keeping its value; and the waiting and
\* total fields of a query's response are the flag and the size of the
\* mailbox of the state the query ran in.
C20_ReadsAndClearFrame ==
    [][/\ out'.handler \in {"messages", "latest"} =>
             UNCHANGED <<recent_messages, waiting_for_reply,
                         notification_sent_time, pc, local>>
       /\ out'.handler = "clear" =>
             /\ recent_messages' = <<>>
             /\ UNCHANGED <<waiting_for_reply, notification_sent_time,
                            pc, local>>
       /\ out'.handler = "messages" =>
             /\ out'.waiting = waiting_for_reply
             /\ out'.total = Len(recent_messages)
      ]_vars

\* A query answered while the flag is set and a record is in the mailbox.
C20_Witness ==
    /\ out.handler = "messages" /\ out.waiting /\ out.total = 1
    /\ waiting_for_reply /\ Len(recent_messages) = 1

====
